---------------------------- MODULE Spec2Model ----------------------------
(***************************************************************************)
(* Family Cookbook (src/src/src/main.js): the App component's state, the   *)
(* RecipeBook navigation state, the RecipeForm submission, and the remote  *)
(* document store with its live subscription, as one state machine.        *)
(*                                                                         *)
(* Text is a sequence of one-character strings.  Every asynchronous        *)
(* operation (save, delete, flip timers, sign-in) is split at its await    *)
(* or timer, and the continuation reads the values its closure captured    *)
(* when the handler started.                                               *)
(*                                                                         *)
(* Spec and SpecHandler run the application; SpecForm runs RecipeForm on   *)
(* its own over the texts that may be typed into it, and SpecPage runs     *)
(* RecipePage on its own over the recipes it may be given.  In each        *)
(* specification the variables of the other parts keep their initial       *)
(* values.                                                                 *)
(***************************************************************************)
EXTENDS Integers, Sequences, FiniteSets, TLC

(* ------------------------------ bounds --------------------------------- *)

\* writes (creates, updates, deletes) the user asks of the store in one
\* behaviour
MaxRequests == 3
\* navigation requests whose timers are pending at the same time
MaxFlips == 2

(* ----------------------------- constants ------------------------------- *)

\* useState(null): no recipe is being edited
NoRecipe == [id |-> 0]

\* the value of serverTimestamp() in a write's payload: a sentinel, no
\* time of any clock, that the store replaces by its own clock
ServerTimestamp == -1

Directions == {"next", "prev"}

Max(a, b) == IF a >= b THEN a ELSE b
Min(a, b) == IF a <= b THEN a ELSE b

(* ------------------------- RecipeForm.handleSubmit ---------------------- *)

\* String.prototype.trim's white space, as far as the alphabet goes
IsSpace(c) == c \in {" ", "\n"}

RECURSIVE TrimLeft(_)
TrimLeft(s) ==
    IF s = <<>> THEN <<>>
    ELSE IF IsSpace(Head(s)) THEN TrimLeft(Tail(s)) ELSE s

RECURSIVE TrimRight(_)
TrimRight(s) ==
    IF s = <<>> THEN <<>>
    ELSE IF IsSpace(s[Len(s)]) THEN TrimRight(SubSeq(s, 1, Len(s) - 1)) ELSE s

Trim(s) == TrimRight(TrimLeft(s))

\* s.split('\n'): the pieces between line breaks, empty pieces included
RECURSIVE SplitLines(_, _)
SplitLines(s, cur) ==
    IF s = <<>> THEN <<cur>>
    ELSE IF Head(s) = "\n" THEN <<cur>> \o SplitLines(Tail(s), <<>>)
    ELSE SplitLines(Tail(s), Append(cur, Head(s)))

RECURSIVE MapTrim(_)
MapTrim(lines) ==
    IF lines = <<>> THEN <<>>
    ELSE <<Trim(Head(lines))>> \o MapTrim(Tail(lines))

RECURSIVE FilterNonEmpty(_)
FilterNonEmpty(lines) ==
    IF lines = <<>> THEN <<>>
    ELSE IF Len(Head(lines)) > 0 THEN <<Head(lines)>> \o FilterNonEmpty(Tail(lines))
    ELSE FilterNonEmpty(Tail(lines))

\* a conversion that filters the lines without trimming them
ingredientArrayUntrimmed(text) == FilterNonEmpty(SplitLines(text, <<>>))

\* the ingredients text converted to the array handed to onSubmit
ingredientArray(text) == FilterNonEmpty(MapTrim(SplitLines(text, <<>>)))

\* a handleSubmit that tests the fields without trimming them
FormRejectedUntrimmed(form) ==
    \/ form.title = <<>>
    \/ form.ingredients = <<>>
    \/ form.instructions = <<>>

\* a handleSubmit that does not test the ingredients text
FormRejectedNoIngredients(form) ==
    \/ Trim(form.title) = <<>>
    \/ Trim(form.instructions) = <<>>

\* the early return of handleSubmit
FormRejected(form) ==
    \/ Trim(form.title) = <<>>
    \/ Trim(form.ingredients) = <<>>
    \/ Trim(form.instructions) = <<>>

\* the object handed to onSubmit
FormData(form) ==
    [title |-> form.title,
     ingredients |-> ingredientArray(form.ingredients),
     instructions |-> form.instructions]

\* what the user may have typed into the three fields when submitting
FormInputs ==
    { [title |-> <<"P", "i", "e">>,
       ingredients |-> <<" ", "f", " ", "\n", "\n", "a", "\n">>,
       instructions |-> <<"B">>],
      [title |-> <<"S">>,
       ingredients |-> <<"s">>,
       instructions |-> <<"C", "\n">>],
      [title |-> <<" ">>,
       ingredients |-> <<"s">>,
       instructions |-> <<"C">>] }

(* --------------------------- document store ---------------------------- *)

DocIds(docs) == {d.id : d \in docs}

\* orderBy('dateAdded', 'asc') followed by docs.map(doc => ({id, ...data}))
RECURSIVE OrderByDateAdded(_)
OrderByDateAdded(docs) ==
    IF docs = {} THEN <<>>
    ELSE LET first == CHOOSE d \in docs :
                          \A e \in docs : d.dateAdded <= e.dateAdded
         IN <<first>> \o OrderByDateAdded(docs \ {first})


\* addDoc(collectionRef, payload): the store generates the id and replaces
\* the serverTimestamp() sentinel by its clock
AddDoc(docs, newId, now, payload) ==
    docs \cup { [id |-> newId,
                 title |-> payload.title,
                 ingredients |-> payload.ingredients,
                 instructions |-> payload.instructions,
                 dateAdded |-> IF payload.dateAdded = ServerTimestamp
                               THEN now ELSE payload.dateAdded] }

\* an update that also stamps the document with the time of the edit
UpdateDocTouchesDate(docs, docId, now, payload) ==
    { IF d.id = docId
      THEN [d EXCEPT !.title = payload.title,
                     !.ingredients = payload.ingredients,
                     !.instructions = payload.instructions,
                     !.dateAdded = now]
      ELSE d : d \in docs }

\* updateDoc(docRef, payload): a partial update, only the payload's fields
\* of the document with that id change
UpdateDoc(docs, docId, now, payload) ==
    { IF d.id = docId
      THEN [d EXCEPT !.title = payload.title,
                     !.ingredients = payload.ingredients,
                     !.instructions = payload.instructions]
      ELSE d : d \in docs }

\* deleteDoc(docRef)
DeleteDoc(docs, docId) == { d \in docs : d.id # docId }

(* ------------------------------- state --------------------------------- *)

VARIABLES
    initPhase,          \* position of the initialization effect and of doAuth
    db,                 \* App: db is set (TRUE) or null (FALSE)
    userId,             \* App: "" for null
    recipes,            \* App: the in-memory list
    isLoading,          \* App
    currentPageIndex,   \* App
    isModalOpen,        \* App
    editingRecipe,      \* App: NoRecipe for null
    isSaving,           \* App
    isFlipping,         \* RecipeBook
    flipDirection,      \* RecipeBook
    turnTimers,         \* pending 250 ms timers, oldest first
    unlockTimers,       \* number of pending 500 ms timers
    saves,              \* handleSaveRecipe calls suspended at their await
    deletes,            \* handlePageDelete calls suspended at their await
    store,              \* the documents of the user's recipes collection
    nextId,             \* the store's id generator
    clock,              \* the store's clock
    requests,           \* writes the user has asked for so far
    initialData,        \* RecipeForm: the initialData prop, NoRecipe for null
    title,              \* RecipeForm
    ingredients,        \* RecipeForm: the textarea's text
    instructions,       \* RecipeForm
    formPhase,          \* RecipeForm: what wrote the fields last (effect, onChange)
    populatePending,    \* RecipeForm: the effect on [initialData] is still to run
    submits,            \* RecipeForm: the runs of handleSubmit so far
    onSubmitCalls,      \* RecipeForm: the calls of onSubmit so far
    onSubmitData,       \* RecipeForm: the argument of the latest onSubmit call
    recipe,             \* RecipePage: the recipe prop, NoRecipe for none
    checkedIngredients, \* RecipePage: position -> checked
    effectId            \* RecipePage: the recipe?.id its effect last ran for

appVars == <<db, userId, recipes, isLoading, currentPageIndex,
             isModalOpen, editingRecipe, isSaving>>
bookVars == <<isFlipping, flipDirection, turnTimers, unlockTimers>>
storeVars == <<store, nextId, clock>>
formVars == <<initialData, title, ingredients, instructions, formPhase,
              populatePending, submits, onSubmitCalls, onSubmitData>>
pageVars == <<recipe, checkedIngredients, effectId>>
widgetVars == <<formVars, pageVars>>
vars == <<initPhase, appVars, bookVars, saves, deletes, storeVars, requests, widgetVars>>

\* onSubmit has not been called: no call carries an empty title
NoFormData == [title |-> <<>>, ingredients |-> <<>>, instructions |-> <<>>]

\* RecipeForm before it is mounted: the modal is closed
FormUnmounted ==
    /\ initialData = NoRecipe
    /\ title = <<>>
    /\ ingredients = <<>>
    /\ instructions = <<>>
    /\ formPhase = "unmounted"
    /\ populatePending = FALSE
    /\ submits = 0
    /\ onSubmitCalls = 0
    /\ onSubmitData = NoFormData

\* the effect of RecipePage has not run yet
Unrun == -1

\* RecipePage as it is first rendered: the welcome page, nothing checked,
\* its effect still to run
PageWelcome ==
    /\ recipe = NoRecipe
    /\ checkedIngredients = <<>>
    /\ effectId = Unrun

\* the useState initial values, an empty collection, nothing in flight
AppInit ==
    /\ initPhase = "mounting"
    /\ db = FALSE
    /\ userId = ""
    /\ recipes = <<>>
    /\ isLoading = TRUE
    /\ currentPageIndex = 0
    /\ isModalOpen = FALSE
    /\ editingRecipe = NoRecipe
    /\ isSaving = FALSE
    /\ isFlipping = FALSE
    /\ flipDirection = "next"
    /\ turnTimers = <<>>
    /\ unlockTimers = 0
    /\ saves = <<>>
    /\ deletes = <<>>
    /\ store = {}
    /\ nextId = 1
    /\ clock = 1
    /\ requests = 0

Init == AppInit /\ FormUnmounted /\ PageWelcome

(* ------------------------------ startup -------------------------------- *)

\* the initialization effect, up to its return
InitEffect ==
    /\ initPhase = "mounting"
    /\ \E configPresent \in BOOLEAN, threw \in {"no", "beforeSetDb", "afterSetDb"} :
          IF ~configPresent
          THEN /\ threw = "no"
               /\ initPhase' = "noConfig"
               /\ isLoading' = FALSE
               /\ db' = db
          ELSE IF threw # "no"
          THEN /\ initPhase' = "initError"
               /\ isLoading' = FALSE
               /\ db' = (threw = "afterSetDb")
          ELSE /\ initPhase' = "listening"
               /\ isLoading' = isLoading
               /\ db' = TRUE
    /\ UNCHANGED <<userId, recipes, currentPageIndex, isModalOpen, editingRecipe, isSaving>>
    /\ UNCHANGED <<bookVars, saves, deletes, storeVars, requests, widgetVars>>

\* the onAuthStateChanged callback with a user
AuthUser ==
    /\ userId' = "uid"
    /\ isLoading' = FALSE
    /\ initPhase' = "signedIn"

\* the first onAuthStateChanged callback: a restored user, or none and doAuth()
AuthStateChanged ==
    /\ initPhase = "listening"
    /\ \/ AuthUser
       \/ /\ \E initialAuthToken \in BOOLEAN :
                initPhase' = IF initialAuthToken THEN "signInWithCustomToken"
                                                 ELSE "signInAnonymously"
          /\ UNCHANGED <<userId, isLoading>>
    /\ UNCHANGED <<db, recipes, currentPageIndex, isModalOpen, editingRecipe, isSaving>>
    /\ UNCHANGED <<bookVars, saves, deletes, storeVars, requests, widgetVars>>

\* the sign-in that doAuth awaits is answered: the auth state changes and the
\* callback runs with the user, or the promise rejects and nobody handles it
SignInSettled ==
    /\ initPhase \in {"signInWithCustomToken", "signInAnonymously"}
    /\ \/ AuthUser
       \/ /\ initPhase' = "signInFailed"
          /\ UNCHANGED <<userId, isLoading>>
    /\ UNCHANGED <<db, recipes, currentPageIndex, isModalOpen, editingRecipe, isSaving>>
    /\ UNCHANGED <<bookVars, saves, deletes, storeVars, requests, widgetVars>>

(* ---------------------------- subscription ----------------------------- *)

\* the guard of the fetch effect
Subscribed == db /\ userId # ""

\* a snapshot callback that keeps the records it already holds and only
\* appends the ones it does not know
SnapshotMerged(docs, list) ==
    list \o OrderByDateAdded({d \in docs : d.id \notin {list[j].id : j \in 1..Len(list)}})

\* the onSnapshot callback: the new list, whatever the old one (list) was
SnapshotRecipes(docs, list) == OrderByDateAdded(docs)

SnapshotDelivered ==
    /\ Subscribed
    /\ recipes # SnapshotRecipes(store, recipes)
    /\ recipes' = SnapshotRecipes(store, recipes)
    /\ UNCHANGED <<initPhase, db, userId, isLoading, currentPageIndex,
                   isModalOpen, editingRecipe, isSaving>>
    /\ UNCHANGED <<bookVars, saves, deletes, storeVars, requests, widgetVars>>

(* ------------------------------- modal --------------------------------- *)

openAddModal ==
    /\ editingRecipe' = NoRecipe
    /\ isModalOpen' = TRUE
    /\ UNCHANGED <<initPhase, db, userId, recipes, isLoading, currentPageIndex, isSaving>>
    /\ UNCHANGED <<bookVars, saves, deletes, storeVars, requests, widgetVars>>

\* RecipeBook is rendered once loading has ended
BookRendered == ~isLoading

totalPages == Len(recipes) + 1

\* currentRecipe is a recipe: RecipePage shows it with its Edit and Delete
\* buttons (recipes[currentPageIndex - 1] in the source's 0-based array)
RecipeShown == currentPageIndex >= 1 /\ currentPageIndex <= Len(recipes)

currentRecipe == recipes[currentPageIndex]

\* the Edit button of the displayed recipe
openEditModal ==
    /\ BookRendered
    /\ RecipeShown
    /\ editingRecipe' = currentRecipe
    /\ isModalOpen' = TRUE
    /\ UNCHANGED <<initPhase, db, userId, recipes, isLoading, currentPageIndex, isSaving>>
    /\ UNCHANGED <<bookVars, saves, deletes, storeVars, requests, widgetVars>>

\* the modal's close button
closeModal ==
    /\ isModalOpen
    /\ isModalOpen' = FALSE
    /\ UNCHANGED <<initPhase, db, userId, recipes, isLoading, currentPageIndex,
                   editingRecipe, isSaving>>
    /\ UNCHANGED <<bookVars, saves, deletes, storeVars, requests, widgetVars>>

(* -------------------------------- save --------------------------------- *)

\* a guard that tests the store client only
ClientAbsentDbOnly == ~db

\* the guard of handleSaveRecipe and handleDeleteRecipe: !db || !userId
ClientAbsent == ~db \/ userId = ""

\* a submit button that is never disabled
SubmitNeverDisabled == FALSE

\* the submit button's disabled attribute
SubmitDisabled == isSaving

\* a create that stamps the record with a client-side date
CreatePayloadClientDate(formData) ==
    [title |-> formData.title,
     ingredients |-> formData.ingredients,
     instructions |-> formData.instructions,
     dateAdded |-> 0]

\* the object handleSaveRecipe passes to addDoc
CreatePayload(formData) ==
    [title |-> formData.title,
     ingredients |-> formData.ingredients,
     instructions |-> formData.instructions,
     dateAdded |-> ServerTimestamp]

\* the object handleSaveRecipe passes to updateDoc
UpdatePayload(formData) ==
    [title |-> formData.title,
     ingredients |-> formData.ingredients,
     instructions |-> formData.instructions]

\* handleSaveRecipe up to its await: the call is suspended with what its
\* closure holds (editingRecipe, recipes.length)
SaveStarted(formData) ==
    IF editingRecipe # NoRecipe
    THEN Append(saves, [kind |-> "update", id |-> editingRecipe.id,
                        payload |-> UpdatePayload(formData),
                        n |-> Len(recipes), status |-> "sent"])
    ELSE Append(saves, [kind |-> "create", id |-> 0,
                        payload |-> CreatePayload(formData),
                        n |-> Len(recipes), status |-> "sent"])

\* the form is submitted: RecipeForm.handleSubmit, then handleSaveRecipe up
\* to its await
SubmitForm ==
    /\ isModalOpen
    /\ ~SubmitDisabled
    /\ \E form \in FormInputs :
          IF FormRejected(form) \/ ClientAbsent
          THEN UNCHANGED <<isSaving, saves, requests>>
          ELSE /\ requests < MaxRequests
               /\ requests' = requests + 1
               /\ isSaving' = TRUE
               /\ saves' = SaveStarted(FormData(form))
    /\ UNCHANGED <<initPhase, db, userId, recipes, isLoading, currentPageIndex,
                   isModalOpen, editingRecipe>>
    /\ UNCHANGED <<bookVars, deletes, storeVars, widgetVars>>

RemoveAt(seq, i) == SubSeq(seq, 1, i - 1) \o SubSeq(seq, i + 1, Len(seq))

\* the store answers a write: it performs it, or refuses it (an update of a
\* document that does not exist is always refused); addDoc resolves with the
\* reference of the document it made
StoreAnswersSaveAt(i) ==
    /\ saves[i].status = "sent"
    /\ \/ /\ saves[i].kind = "create"
          /\ store' = AddDoc(store, nextId, clock, saves[i].payload)
          /\ nextId' = nextId + 1
          /\ clock' = clock + 1
          /\ saves' = [saves EXCEPT ![i].status = "ok", ![i].id = nextId]
       \/ /\ saves[i].kind = "update"
          /\ saves[i].id \in DocIds(store)
          /\ store' = UpdateDoc(store, saves[i].id, clock, saves[i].payload)
          /\ UNCHANGED <<nextId, clock>>
          /\ saves' = [saves EXCEPT ![i].status = "ok"]
       \/ /\ saves' = [saves EXCEPT ![i].status = "err"]
          /\ UNCHANGED storeVars
    /\ UNCHANGED <<initPhase, appVars, bookVars, deletes, requests, widgetVars>>

StoreAnswersSave == \E i \in 1..Len(saves) : StoreAnswersSaveAt(i)

\* setCurrentPageIndex(recipes.length + 1), recipes being the closure's list
IndexAfterCreate(n) == n + 1

\* a save whose failure also runs the success path
AwaitAlwaysResolved(op) == TRUE

\* the awaited write resolved: the try block runs to its end; otherwise the
\* await throws and the catch block runs
AwaitResolved(op) == op.status = "ok"

\* handleSaveRecipe after its await: the rest of the try block on success,
\* the catch block on failure, and the finally block
SaveSettledAt(i) ==
    /\ saves[i].status # "sent"
    /\ IF AwaitResolved(saves[i])
       THEN /\ currentPageIndex' = IF saves[i].kind = "create"
                                   THEN IndexAfterCreate(saves[i].n)
                                   ELSE currentPageIndex
            /\ isModalOpen' = FALSE
            /\ editingRecipe' = NoRecipe
       ELSE UNCHANGED <<currentPageIndex, isModalOpen, editingRecipe>>
    /\ isSaving' = FALSE
    /\ saves' = RemoveAt(saves, i)
    /\ UNCHANGED <<initPhase, db, userId, recipes, isLoading>>
    /\ UNCHANGED <<bookVars, deletes, storeVars, requests, widgetVars>>

SaveSettled == \E i \in 1..Len(saves) : SaveSettledAt(i)

(* ------------------------------- delete -------------------------------- *)

\* a handlePageDelete that sets the index from the closure's value
IndexAfterDeleteStale(k, prev) == IF k > 0 THEN Max(0, k - 1) ELSE prev

\* the updater handlePageDelete applies after its await
IndexAfterDelete(k, prev) == IF k > 0 THEN Max(0, prev - 1) ELSE prev

\* the Delete button of the displayed recipe, confirmed: handlePageDelete
\* and handleDeleteRecipe up to the await of deleteDoc
DeleteRequested ==
    /\ BookRendered
    /\ RecipeShown
    /\ requests < MaxRequests
    /\ requests' = requests + 1
    /\ IF ClientAbsent
       THEN /\ currentPageIndex' = IndexAfterDelete(currentPageIndex, currentPageIndex)
            /\ UNCHANGED deletes
       ELSE /\ deletes' = Append(deletes, [id |-> currentRecipe.id,
                                           k |-> currentPageIndex,
                                           status |-> "sent"])
            /\ UNCHANGED currentPageIndex
    /\ UNCHANGED <<initPhase, db, userId, recipes, isLoading,
                   isModalOpen, editingRecipe, isSaving>>
    /\ UNCHANGED <<bookVars, saves, storeVars, widgetVars>>

\* the store answers a delete: it removes the document, or refuses
StoreAnswersDeleteAt(i) ==
    /\ deletes[i].status = "sent"
    /\ \/ /\ store' = DeleteDoc(store, deletes[i].id)
          /\ deletes' = [deletes EXCEPT ![i].status = "ok"]
       \/ /\ store' = store
          /\ deletes' = [deletes EXCEPT ![i].status = "err"]
    /\ UNCHANGED <<nextId, clock, requests>>
    /\ UNCHANGED <<initPhase, appVars, bookVars, saves, widgetVars>>

StoreAnswersDelete == \E i \in 1..Len(deletes) : StoreAnswersDeleteAt(i)

\* handleDeleteRecipe returns (its catch block swallows a failure) and
\* handlePageDelete runs on after its await
DeleteSettledAt(i) ==
    /\ deletes[i].status # "sent"
    /\ currentPageIndex' = IndexAfterDelete(deletes[i].k, currentPageIndex)
    /\ deletes' = RemoveAt(deletes, i)
    /\ UNCHANGED <<initPhase, db, userId, recipes, isLoading,
                   isModalOpen, editingRecipe, isSaving>>
    /\ UNCHANGED <<bookVars, saves, storeVars, requests, widgetVars>>

DeleteSettled == \E i \in 1..Len(deletes) : DeleteSettledAt(i)

(* ----------------------------- navigation ------------------------------ *)

\* the disabled attributes of the two navigation buttons
PrevDisabled == currentPageIndex = 0 \/ isFlipping
NextDisabled == currentPageIndex = totalPages - 1 \/ totalPages = 1 \/ isFlipping

NavDisabled(direction) == IF direction = "next" THEN NextDisabled ELSE PrevDisabled

\* onFlipStart: the two state updates and the two timers; the first timer
\* keeps the handleNextPage / handlePrevPage of the render that made it
onFlipStart(direction) ==
    /\ flipDirection' = direction
    /\ isFlipping' = TRUE
    /\ turnTimers' = Append(turnTimers, [direction |-> direction,
                                         totalPages |-> totalPages])
    /\ unlockTimers' = unlockTimers + 1
    /\ UNCHANGED <<initPhase, appVars, saves, deletes, storeVars, requests, widgetVars>>

\* a click on an enabled navigation button
NavClicked ==
    /\ BookRendered
    /\ unlockTimers < MaxFlips
    /\ \E direction \in Directions :
          /\ ~NavDisabled(direction)
          /\ onFlipStart(direction)

\* onFlipStart called whatever the buttons' state
NavRequested ==
    /\ BookRendered
    /\ unlockTimers < MaxFlips
    /\ \E direction \in Directions : onFlipStart(direction)

\* the updaters of handleNextPage and handlePrevPage
handleNextPage(prev, pages) == Min(prev + 1, pages - 1)
handlePrevPage(prev) == Max(prev - 1, 0)

\* the 250 ms timer of the oldest pending request fires
TurnTimerFires ==
    /\ turnTimers # <<>>
    /\ currentPageIndex' =
          IF Head(turnTimers).direction = "next"
          THEN handleNextPage(currentPageIndex, Head(turnTimers).totalPages)
          ELSE handlePrevPage(currentPageIndex)
    /\ turnTimers' = Tail(turnTimers)
    /\ UNCHANGED <<initPhase, db, userId, recipes, isLoading,
                   isModalOpen, editingRecipe, isSaving>>
    /\ UNCHANGED <<isFlipping, flipDirection, unlockTimers, saves, deletes, storeVars, requests, widgetVars>>

\* the 500 ms timer of the oldest request whose 250 ms timer has fired
UnlockTimerFires ==
    /\ unlockTimers > Len(turnTimers)
    /\ isFlipping' = FALSE
    /\ unlockTimers' = unlockTimers - 1
    /\ UNCHANGED <<initPhase, appVars, flipDirection, turnTimers, saves, deletes, storeVars, requests, widgetVars>>

(* ------------------------------ RecipeForm ----------------------------- *)

\* everything outside RecipeForm and RecipePage
appState == <<initPhase, appVars, bookVars, saves, deletes, storeVars, requests>>

\* the characters a text is typed from, and the longest text typed
Alphabet == {" ", "\n", "a"}
MaxLen == 2
\* the submissions of one mounting of the form
MaxSubmits == 2

Texts == UNION { [1..n -> Alphabet] : n \in 0..MaxLen }

EggsText ==
    <<" ", "2", " ", "e", "g", "g", "s", " ", "\n", "\n", "f", "l", "o", "u", "r", "\n">>

\* what may be typed into the ingredients textarea
IngredientTexts == Texts \cup {EggsText}

\* what may be typed into the title input (one line)
TitleTexts == { <<>>, <<" ">>, <<"T", " ">> }

\* what may be typed into the instructions textarea
InstructionTexts == { <<>>, <<" ", "\n">>, <<"T", " ">> }

\* a recipe as the list holds it after the form's data was stored
StoredRecipe(form) ==
    [id |-> 1,
     title |-> form.title,
     ingredients |-> ingredientArray(form.ingredients),
     instructions |-> form.instructions,
     dateAdded |-> 1]

\* the initialData prop: null (add mode), or a recipe the form has written
InitialDatas ==
    {NoRecipe} \cup
    { StoredRecipe(form) :
        form \in { f \in [title : {<<"T", " ">>},
                          ingredients : IngredientTexts,
                          instructions : {<<"T", " ">>}] : ~FormRejected(f) } }

\* Array.prototype.join with another separator than the line break
RECURSIVE JoinSpaces(_)
JoinSpaces(lines) ==
    IF lines = <<>> THEN <<>>
    ELSE IF Len(lines) = 1 THEN Head(lines)
    ELSE Head(lines) \o <<" ">> \o JoinSpaces(Tail(lines))

\* initialData.ingredients.join('\n')
RECURSIVE JoinLines(_)
JoinLines(lines) ==
    IF lines = <<>> THEN <<>>
    ELSE IF Len(lines) = 1 THEN Head(lines)
    ELSE Head(lines) \o <<"\n">> \o JoinLines(Tail(lines))

\* the modal opens: RecipeForm is mounted with empty fields, its effect
\* still to run
FormMounted ==
    /\ initialData \in InitialDatas
    /\ title = <<>>
    /\ ingredients = <<>>
    /\ instructions = <<>>
    /\ formPhase = "mounted"
    /\ populatePending = TRUE
    /\ submits = 0
    /\ onSubmitCalls = 0
    /\ onSubmitData = NoFormData

\* the modal is open and RecipeForm is mounted in it
FormOpen == formPhase # "unmounted"

\* the effect on [initialData]: it runs after the first render and after
\* every render with another initialData, and overwrites the three fields
PopulateEffect ==
    /\ FormOpen
    /\ populatePending
    /\ populatePending' = FALSE
    /\ formPhase' = "populated"
    /\ IF initialData # NoRecipe
       THEN /\ title' = initialData.title
            /\ ingredients' = JoinLines(initialData.ingredients)
            /\ instructions' = initialData.instructions
       ELSE /\ title' = <<>>
            /\ ingredients' = <<>>
            /\ instructions' = <<>>
    /\ UNCHANGED <<initialData, submits, onSubmitCalls, onSubmitData>>
    /\ UNCHANGED <<appState, pageVars>>

\* the parent renders the open form with another initialData (another
\* recipe object, or null after a recipe); the fields stay as they are until
\* the effect runs; effects of the render before have run
InitialDataChanged ==
    /\ FormOpen
    /\ ~populatePending
    /\ \E d \in InitialDatas :
          /\ d # NoRecipe \/ initialData # NoRecipe
          /\ initialData' = d
    /\ populatePending' = TRUE
    /\ UNCHANGED <<title, ingredients, instructions, formPhase>>
    /\ UNCHANGED <<submits, onSubmitCalls, onSubmitData>>
    /\ UNCHANGED <<appState, pageVars>>

\* the onChange handler of the title input
setTitle ==
    /\ FormOpen
    /\ \E text \in TitleTexts : text # title /\ title' = text
    /\ formPhase' = "editing"
    /\ UNCHANGED <<initialData, ingredients, instructions, populatePending>>
    /\ UNCHANGED <<submits, onSubmitCalls, onSubmitData>>
    /\ UNCHANGED <<appState, pageVars>>

\* the onChange handler of the ingredients textarea
setIngredients ==
    /\ FormOpen
    /\ \E text \in IngredientTexts : text # ingredients /\ ingredients' = text
    /\ formPhase' = "editing"
    /\ UNCHANGED <<initialData, title, instructions, populatePending>>
    /\ UNCHANGED <<submits, onSubmitCalls, onSubmitData>>
    /\ UNCHANGED <<appState, pageVars>>

\* the onChange handler of the instructions textarea
setInstructions ==
    /\ FormOpen
    /\ \E text \in InstructionTexts : text # instructions /\ instructions' = text
    /\ formPhase' = "editing"
    /\ UNCHANGED <<initialData, title, ingredients, populatePending>>
    /\ UNCHANGED <<submits, onSubmitCalls, onSubmitData>>
    /\ UNCHANGED <<appState, pageVars>>

\* the three fields as handleSubmit reads them
FormFields == [title |-> title, ingredients |-> ingredients, instructions |-> instructions]

\* handleSubmit: the early return, or the call of onSubmit; it writes no
\* state of the form
handleSubmit ==
    /\ FormOpen
    /\ submits < MaxSubmits
    /\ submits' = submits + 1
    /\ IF FormRejected(FormFields)
       THEN UNCHANGED <<onSubmitCalls, onSubmitData>>
       ELSE /\ onSubmitCalls' = onSubmitCalls + 1
            /\ onSubmitData' = FormData(FormFields)
    /\ UNCHANGED <<initialData, title, ingredients, instructions, formPhase, populatePending>>
    /\ UNCHANGED <<appState, pageVars>>

(* ------------------------------ RecipePage ----------------------------- *)

\* the longest ingredient list a displayed recipe has
MaxIngredients == 3

\* the recipes RecipePage may be given: two ids, each with an ingredient
\* list of any length from 1 to MaxIngredients
PageRecipes ==
    { [id |-> i,
       title |-> <<"T">>,
       ingredients |-> [k \in 1..n |-> <<"a">>],
       instructions |-> <<"T">>,
       dateAdded |-> i] : i \in {1, 2}, n \in 1..MaxIngredients }

\* checkedIngredients[index] read as a condition: an absent key is false
IsChecked(checked, index) == index \in DOMAIN checked /\ checked[index]

\* an updater that forgets the positions it was not asked about
toggleIngredientAlone(prev, index) ==
    [k \in {index} |-> ~IsChecked(prev, index)]

\* the updater of toggleIngredient: { ...prev, [index]: !prev[index] }
\* (positions count from 1 here, from 0 in the source)
toggleIngredient(prev, index) ==
    [k \in DOMAIN prev \cup {index} |->
        IF k = index THEN ~IsChecked(prev, index) ELSE prev[k]]

\* the effect on [recipe?.id] is still to run for the rendered recipe
EffectPending == effectId # recipe.id

\* a click on the ingredient at some position of the displayed recipe; the
\* recipe is displayed with the marks the state holds, also while the effect
\* is still to run
IngredientClicked ==
    /\ recipe # NoRecipe
    /\ \E index \in 1..Len(recipe.ingredients) :
          checkedIngredients' = toggleIngredient(checkedIngredients, index)
    /\ UNCHANGED <<recipe, effectId, appState, formVars>>

\* RecipeBook renders RecipePage with another recipe prop (another recipe,
\* the same recipe with other content, or none): the component is updated,
\* not remounted, and keeps its state; effects of the render before have run
RecipeChanged ==
    /\ ~EffectPending
    /\ \E r \in PageRecipes \cup {NoRecipe} :
          /\ r # recipe
          /\ recipe' = r
    /\ UNCHANGED <<checkedIngredients, effectId, appState, formVars>>

\* the effect on [recipe?.id], run after the render when the id is not the
\* one it last ran for (and after the first render): setCheckedIngredients({})
ResetEffect ==
    /\ EffectPending
    /\ checkedIngredients' = <<>>
    /\ effectId' = recipe.id
    /\ UNCHANGED <<recipe, appState, formVars>>

(* --------------------------- specifications ---------------------------- *)

Next ==
    \/ InitEffect
    \/ AuthStateChanged
    \/ SignInSettled
    \/ SnapshotDelivered
    \/ openAddModal
    \/ openEditModal
    \/ closeModal
    \/ SubmitForm
    \/ StoreAnswersSave
    \/ SaveSettled
    \/ DeleteRequested
    \/ StoreAnswersDelete
    \/ DeleteSettled
    \/ NavClicked
    \/ TurnTimerFires
    \/ UnlockTimerFires

\* the application driven through its rendered controls
Spec == Init /\ [][Next]_vars

\* the same, with onFlipStart also called directly
NextHandler == Next \/ NavRequested

SpecHandler == Init /\ [][NextHandler]_vars

\* one mounting of RecipeForm on its own: typing, submissions (rejected and
\* accepted, up to MaxSubmits of them) and changes of initialData in any
\* order
InitForm == AppInit /\ FormMounted /\ PageWelcome

NextForm ==
    \/ PopulateEffect
    \/ InitialDataChanged
    \/ setTitle
    \/ setIngredients
    \/ setInstructions
    \/ handleSubmit

SpecForm == InitForm /\ [][NextForm]_vars

\* RecipePage on its own, given any recipe by its parent
NextPage ==
    \/ IngredientClicked
    \/ RecipeChanged
    \/ ResetEffect

SpecPage == Init /\ [][NextPage]_vars

(* ------------------------------ properties ----------------------------- *)

RecipeIds(list) == {list[j].id : j \in 1..Len(list)}

\* C1: in every reachable state the navigation index is within
\* [0, recipeCount], recipeCount being the length of the in-memory list.
C1_IndexWithinBounds ==
    currentPageIndex >= 0 /\ currentPageIndex <= Len(recipes)

\* C2 as claimed: when the delete of the recipe displayed at index k > 0
\* completes, the index is k - 1, whatever happened in between.
C2_IndexIsKMinusOne ==
    [][\A i \in 1..Len(deletes) :
          (DeleteSettledAt(i) /\ deletes[i].k > 0)
             => currentPageIndex' = deletes[i].k - 1]_vars

\* C2 as amended: when the delete of the recipe displayed at index k > 0
\* completes, whether the store removed the record or refused, the index
\* becomes one less than it was just before the completion, clamped at 0;
\* that is k - 1 when nothing else moved the index since the request.
C2_DeleteStepsBackOnce ==
    [][\A i \in 1..Len(deletes) :
          (DeleteSettledAt(i) /\ deletes[i].k > 0)
             => /\ currentPageIndex > 0 => currentPageIndex' = currentPageIndex - 1
                /\ currentPageIndex = 0 => currentPageIndex' = 0
                /\ currentPageIndex = deletes[i].k
                      => currentPageIndex' = deletes[i].k - 1]_vars

\* two recipes were created, the second one (index 2) was deleted, every
\* operation has completed and the book shows the first recipe at index 1
C2_Witness ==
    /\ requests = 3 /\ nextId = 3
    /\ saves = <<>> /\ deletes = <<>>
    /\ RecipeIds(recipes) = {1} /\ DocIds(store) = {1}
    /\ currentPageIndex = 1

\* the request is out of bounds: "next" on or past the last page,
\* "previous" on page 0
OutOfBounds(direction) ==
    IF direction = "next" THEN currentPageIndex >= totalPages - 1
                          ELSE currentPageIndex = 0

\* C3: a call of onFlipStart while isFlipping is true, or out of bounds,
\* changes neither the index nor flipDirection and schedules no timer.
C3_RequestIgnored ==
    [][\A direction \in Directions :
          (BookRendered /\ (isFlipping \/ OutOfBounds(direction))
             /\ onFlipStart(direction))
             => UNCHANGED <<currentPageIndex, flipDirection, turnTimers, unlockTimers>>]_vars

\* C4: when a create completes after the snapshot with the new record has
\* been delivered, the page displayed is the new recipe.
C4_CreateShowsNewRecipe ==
    [][\A i \in 1..Len(saves) :
          (/\ SaveSettledAt(i)
           /\ saves[i].kind = "create" /\ saves[i].status = "ok"
           /\ saves[i].id \in RecipeIds(recipes))
             => /\ currentPageIndex' >= 1
                /\ currentPageIndex' <= Len(recipes')
                /\ recipes'[currentPageIndex'].id = saves[i].id]_vars

\* C5: a save made while a recipe is edited is an update of the record
\* with editingRecipe's id, and the store's answer to it changes exactly
\* that record's title, ingredients and instructions: its id and dateAdded,
\* every other record and the ascending-dateAdded order stay as they were.
C5_UpdateTouchesOnlyContent ==
    [][/\ (SubmitForm /\ editingRecipe # NoRecipe /\ Len(saves') > Len(saves))
             => /\ saves'[Len(saves')].kind = "update"
                /\ saves'[Len(saves')].id = editingRecipe.id
                /\ DOMAIN saves'[Len(saves')].payload
                      = {"title", "ingredients", "instructions"}
       /\ \A i \in 1..Len(saves) :
             (StoreAnswersSaveAt(i) /\ saves[i].kind = "update" /\ store' # store)
                => /\ \A d \in store : d.id # saves[i].id => d \in store'
                   /\ \E d \in store, e \in store' :
                         /\ d.id = saves[i].id /\ e.id = d.id
                         /\ e.dateAdded = d.dateAdded
                         /\ e.title = saves[i].payload.title
                         /\ e.ingredients = saves[i].payload.ingredients
                         /\ e.instructions = saves[i].payload.instructions
                         /\ DOMAIN e = DOMAIN d
                         /\ store' = (store \ {d}) \cup {e}
                   /\ LET before == OrderByDateAdded(store)
                          after == OrderByDateAdded(store')
                      IN /\ Len(after) = Len(before)
                         /\ \A j \in 1..Len(before) : after[j].id = before[j].id]_vars

\* an update has changed the first of two records: the store holds the new
\* title, the list still the old one
C5_Witness ==
    \E i \in 1..Len(saves) :
       /\ saves[i].kind = "update" /\ saves[i].status = "ok" /\ saves[i].id = 1
       /\ DocIds(store) = {1, 2}
       /\ \E d \in store : d.id = 1 /\ d.title = saves[i].payload.title
       /\ \E j \in 1..Len(recipes) :
             recipes[j].id = 1 /\ recipes[j].title # saves[i].payload.title

\* C6: when a save succeeds the modal is closed and editingRecipe cleared;
\* when it fails, the completion leaves the modal, editingRecipe and the
\* index as they were and attempts no further write.
C6_SaveOutcome ==
    [][\A i \in 1..Len(saves) :
          SaveSettledAt(i)
             => IF saves[i].status = "ok"
                THEN ~isModalOpen' /\ editingRecipe' = NoRecipe
                ELSE /\ UNCHANGED <<isModalOpen, editingRecipe, currentPageIndex>>
                     /\ saves' = RemoveAt(saves, i)
                     /\ UNCHANGED <<deletes, store, requests>>]_vars

\* the store has refused the update of the recipe being edited, the modal
\* is open, and the completion is about to run
C6_Witness ==
    \E i \in 1..Len(saves) :
       /\ saves[i].status = "err" /\ saves[i].kind = "update"
       /\ isModalOpen /\ editingRecipe # NoRecipe
       /\ currentPageIndex > 0

\* C7: at most one save is in flight; it is in flight only while isSaving.
C7_OneSaveInFlight ==
    Len(saves) <= 1 /\ (saves # <<>> => isSaving)

\* a save is in flight with the form still open and the user still allowed
\* another write
C7_Witness ==
    /\ Len(saves) = 1 /\ isSaving /\ isModalOpen
    /\ requests < MaxRequests
    /\ db /\ userId # ""

\* C8: the list changes only when a snapshot is delivered, and then it is
\* the whole collection in ascending dateAdded order; no handler changes it.
C8_ListIsLatestSnapshot ==
    [][recipes' # recipes
          => /\ Subscribed
             /\ store' = store
             /\ {recipes'[j] : j \in 1..Len(recipes')} = store
             /\ Len(recipes') = Cardinality(store)
             /\ \A j, k \in 1..Len(recipes') :
                   j < k => recipes'[j].dateAdded < recipes'[k].dateAdded]_vars

\* a create and a delete have both completed, and the list still shows the
\* deleted record and not the created one
C8_Witness ==
    /\ saves = <<>> /\ deletes = <<>>
    /\ RecipeIds(recipes) = {1}
    /\ DocIds(store) = {2}

StartupSettled ==
    initPhase \in {"noConfig", "initError", "signInFailed", "signedIn"}

\* C9: once startup has nothing left to do, loading has ended: with an
\* identity on success, with no identity and no recipes after a fatal error.
C9_StartupLeavesLoading ==
    StartupSettled
       => /\ ~isLoading
          /\ initPhase = "signedIn" => userId # ""
          /\ initPhase # "signedIn" => (userId = "" /\ recipes = <<>>)

\* C10: a create sends the form's title, ingredients and instructions and
\* the server-timestamp sentinel, and no id; the store gives every record
\* its id and its dateAdded.
C10_CreateIsServerStamped ==
    /\ \A i \in 1..Len(saves) :
          (saves[i].kind = "create" /\ saves[i].status = "sent")
             => /\ DOMAIN saves[i].payload
                      = {"title", "ingredients", "instructions", "dateAdded"}
                /\ saves[i].payload.dateAdded = ServerTimestamp
                /\ \E form \in FormInputs :
                      /\ ~FormRejected(form)
                      /\ saves[i].payload.title = form.title
                      /\ saves[i].payload.ingredients = ingredientArray(form.ingredients)
                      /\ saves[i].payload.instructions = form.instructions
    /\ \A d \in store :
          /\ d.id \in 1..(nextId - 1)
          /\ d.dateAdded \in 1..(clock - 1)
          /\ \A e \in store : (e.id = d.id) = (e.dateAdded = d.dateAdded)

\* the store has performed a create: the record carries the id and the
\* time the store chose
C10_Witness ==
    \E i \in 1..Len(saves) :
       /\ saves[i].kind = "create" /\ saves[i].status = "ok"
       /\ \E d \in store :
             /\ d.id = saves[i].id /\ d.id = nextId - 1
             /\ d.dateAdded = clock - 1
             /\ d.title = saves[i].payload.title

(* ------------------------- RecipeForm properties ------------------------ *)

\* a text that is empty or holds white space only
IsBlank(s) == \A k \in 1..Len(s) : s[k] \in {" ", "\n"}

\* C11: a submission with a blank title, a blank ingredient text or blank
\* instructions, the first of the form or a later one, does not call onSubmit
\* and changes neither the form's fields nor anything outside the form
C11_BlankSubmitIsNoOp ==
    [][ ( /\ submits' # submits
          /\ (IsBlank(title) \/ IsBlank(ingredients) \/ IsBlank(instructions)) )
        => UNCHANGED <<onSubmitCalls, onSubmitData, initialData, title, ingredients,
                       instructions, formPhase, populatePending, appState, pageVars>> ]_vars

\* a form submitted twice, once accepted and once with a title of white
\* space and the other fields filled
C11_Witness ==
    /\ submits = 2
    /\ onSubmitCalls = 1
    /\ title # <<>>
    /\ IsBlank(title)
    /\ ~IsBlank(ingredients)
    /\ ~IsBlank(instructions)
    /\ ~IsBlank(onSubmitData.title)

\* the positions of s on the line of position k: no line break lies between
SameLine(s, j, k) ==
    \A q \in 1..Len(s) : (q >= Min(j, k) /\ q <= Max(j, k)) => s[q] # "\n"

\* the positions of s that hold the first visible character of their line
LineFirsts(s) ==
    { k \in 1..Len(s) :
        /\ s[k] \notin {" ", "\n"}
        /\ \A j \in 1..(k - 1) : SameLine(s, j, k) => s[j] = " " }

\* the position of the last visible character on the line of position k
LineLast(s, k) ==
    CHOOSE h \in k..Len(s) :
        /\ SameLine(s, k, h)
        /\ s[h] # " "
        /\ \A j \in (h + 1)..Len(s) : SameLine(s, k, j) => s[j] = " "

\* the lines of s that hold a visible character, from the first visible
\* character to the last, in the order of the text
VisibleLines(s) ==
    [ n \in 1..Cardinality(LineFirsts(s)) |->
        LET k == CHOOSE f \in LineFirsts(s) :
                    Cardinality({g \in LineFirsts(s) : g <= f}) = n
        IN  SubSeq(s, k, LineLast(s, k)) ]

ToggleFlipsOne ==
    (recipe' = recipe /\ effectId' = effectId
        /\ checkedIngredients' # checkedIngredients) =>
        /\ \E i \in 1..Len(recipe.ingredients) :
              /\ IsChecked(checkedIngredients', i) = ~IsChecked(checkedIngredients, i)
              /\ \A j \in (1..MaxIngredients) \ {i} :
                    IsChecked(checkedIngredients', j) = IsChecked(checkedIngredients, j)
        /\ UNCHANGED <<appState, formVars>>

\* C14: a click on the ingredient at position i flips the checked state of
\* position i and of no other position, and writes nothing outside the page;
\* when the recipe prop gets another id (or becomes none), every position is
\* unchecked
C14_ToggleFlipsOnePosition ==
    [][ /\ ToggleFlipsOne
        /\ (recipe'.id # recipe.id) =>
              /\ \A j \in 1..MaxIngredients : ~IsChecked(checkedIngredients', j)
              /\ UNCHANGED store
      ]_vars

\* C14, amended: a click flips one position only and writes nothing outside
\* the page; a render with another recipe id (or none) keeps the marks and
\* leaves the effect to run; no other render comes before that effect, and
\* the effect unchecks every position
C14_ToggleAndEffectReset ==
    [][ /\ ToggleFlipsOne
        /\ (recipe'.id # recipe.id) =>
              /\ effectId' # recipe'.id
              /\ checkedIngredients' = checkedIngredients
              /\ UNCHANGED store
        /\ (effectId # recipe.id) => recipe' = recipe
        /\ (effectId' # effectId) =>
              /\ effectId' = recipe.id
              /\ \A j \in 1..MaxIngredients : ~IsChecked(checkedIngredients', j)
              /\ UNCHANGED <<recipe, appState, formVars>>
      ]_vars

\* a recipe was given position 1 checked and position 2 checked and
\* unchecked again; a recipe of another id is now rendered with these marks,
\* the effect still to run
C14_Witness ==
    /\ recipe # NoRecipe
    /\ Len(recipe.ingredients) >= 2
    /\ effectId \notin {recipe.id, Unrun, NoRecipe.id}
    /\ IsChecked(checkedIngredients, 1)
    /\ 2 \in DOMAIN checkedIngredients
    /\ ~IsChecked(checkedIngredients, 2)

(* ------------------------- navigation properties ------------------------ *)

\* the 250 ms timer of a request made at the boundary fires with the index
\* still at that boundary: the index keeps its value
BoundaryTimerKeepsIndex ==
    (turnTimers # <<>> /\ turnTimers' = Tail(turnTimers)) =>
        /\ ( /\ Head(turnTimers).direction = "next"
             /\ currentPageIndex = Head(turnTimers).totalPages - 1 )
              => currentPageIndex' = currentPageIndex
        /\ ( /\ Head(turnTimers).direction = "prev"
             /\ currentPageIndex = 0 )
              => currentPageIndex' = currentPageIndex

\* with an empty list the index is 0 and both buttons are disabled
EmptyBookAtWelcome ==
    (BookRendered /\ totalPages = 1) =>
        currentPageIndex = 0 /\ PrevDisabled /\ NextDisabled

\* C15: "next" requested at the last page, or "previous" at page 0, leaves
\* the index unchanged when its timer fires; with an empty list
\* (totalPages = 1) the index is 0 and both navigation buttons are disabled
C15_BoundaryAndEmptyBook ==
    [][BoundaryTimerKeepsIndex /\ EmptyBookAtWelcome]_vars

\* first phase: an accepted request sets the lock and the direction at once,
\* schedules its timers and leaves the index alone
FlipRequested ==
    (unlockTimers' = unlockTimers + 1) =>
        /\ isFlipping'
        /\ Len(turnTimers') = Len(turnTimers) + 1
        /\ flipDirection' = turnTimers'[Len(turnTimers')].direction
        /\ turnTimers'[Len(turnTimers')].totalPages = totalPages
        /\ currentPageIndex' = currentPageIndex

\* one step in a direction, kept within [0, pages - 1]
ClampedStep(index, direction, pages) ==
    IF direction = "next"
    THEN (IF index + 1 > pages - 1 THEN pages - 1 ELSE index + 1)
    ELSE (IF index - 1 < 0 THEN 0 ELSE index - 1)

\* second phase: the first timer moves the index one clamped step, by one
\* page at most, and the lock stays as it is
FlipTurned ==
    (turnTimers # <<>> /\ turnTimers' = Tail(turnTimers)) =>
        /\ currentPageIndex' = ClampedStep(currentPageIndex,
                                           Head(turnTimers).direction,
                                           Head(turnTimers).totalPages)
        /\ currentPageIndex' - currentPageIndex \in {-1, 0, 1}
        /\ isFlipping' = isFlipping

\* third phase: the second timer clears the lock, after the first has fired
FlipUnlocked ==
    (unlockTimers' = unlockTimers - 1) =>
        /\ ~isFlipping'
        /\ Len(turnTimers) < unlockTimers
        /\ currentPageIndex' = currentPageIndex

\* C16: an accepted navigation request sets isFlipping and flipDirection at
\* once; its first timer moves the index one clamped step (totalPages as
\* read at the request), by one page at most; its second timer clears
\* isFlipping, after the index change
C16_TwoPhaseFlip ==
    [][FlipRequested /\ FlipTurned /\ FlipUnlocked]_vars

(* --------------------------- session properties ------------------------- *)

\* C17: while a save is in flight, opening the add or the edit modal changes
\* neither editingRecipe nor isModalOpen, and a save that completes closes
\* the session that submitted it: editingRecipe is then still the recipe (or
\* the null) the save was submitted for
C17_OneEditSession ==
    [][ /\ (isSaving /\ (openAddModal \/ openEditModal)) =>
              UNCHANGED <<editingRecipe, isModalOpen>>
        /\ \A i \in 1..Len(saves) :
              (SaveSettledAt(i) /\ AwaitResolved(saves[i])) =>
                  editingRecipe.id =
                      IF saves[i].kind = "update" THEN saves[i].id ELSE NoRecipe.id
      ]_vars

\* C18: when the store has refused a delete, the completion of the delete
\* leaves the record in the store and in the list and does not change the
\* index
C18_FailedDeleteKeepsIndex ==
    [][ \A i \in 1..Len(deletes) :
          (deletes[i].status = "err" /\ DeleteSettledAt(i)) =>
              /\ deletes[i].id \in DocIds(store) => deletes[i].id \in DocIds(store')
              /\ recipes' = recipes
              /\ currentPageIndex' = currentPageIndex ]_vars

\* isSaving is set exactly while a save is suspended at its await
SavingWhileOutstanding == isSaving <=> saves # <<>>

\* without the store client or the identity nothing was written, nothing is
\* in flight and the state is the initial one
AbsentClientIdle ==
    (~db \/ userId = "") =>
        /\ saves = <<>>
        /\ deletes = <<>>
        /\ ~isSaving
        /\ store = {}
        /\ requests = 0
        /\ recipes = <<>>
        /\ currentPageIndex = 0

\* C19: isSaving is true exactly while a save's write is outstanding; the
\* completion of a save, successful or not, sets it back to false; a save or
\* delete asked for without the store client or the identity writes nothing
\* and changes no state
C19_SavingFlagReleased ==
    [][ /\ SavingWhileOutstanding
        /\ SavingWhileOutstanding'
        /\ AbsentClientIdle
        /\ AbsentClientIdle'
        /\ (Len(saves') < Len(saves)) => ~isSaving' ]_vars

\* the only write asked for was a create the store refused: the save has
\* completed, the form is still open and isSaving is false again
C19_Witness ==
    /\ requests = 1
    /\ nextId = 1
    /\ saves = <<>>
    /\ deletes = <<>>
    /\ isModalOpen
    /\ ~isSaving

(* -------------------------- round-trip property ------------------------- *)

\* the content of a stored recipe: what the form hands to onSubmit
ContentOf(r) ==
    [title |-> r.title, ingredients |-> r.ingredients, instructions |-> r.instructions]

\* C20: every submission of the edit form opened for a stored recipe, made
\* with no field changed since the effect filled them, calls onSubmit with
\* the recipe's own title, ingredients and instructions: joining the
\* ingredients with line breaks and converting the text back gives the
\* original sequence
C20_UnchangedEditRoundTrip ==
    [][ ( /\ initialData # NoRecipe
          /\ ~populatePending
          /\ formPhase = "populated"
          /\ submits' # submits )
        => /\ onSubmitCalls' = onSubmitCalls + 1
           /\ onSubmitData' = ContentOf(initialData) ]_vars

\* a stored recipe of two ingredients or more was opened and submitted
\* twice as the effect filled it
C20_Witness ==
    /\ initialData # NoRecipe
    /\ Len(initialData.ingredients) >= 2
    /\ ~populatePending
    /\ formPhase = "populated"
    /\ submits = 2
    /\ onSubmitCalls = 2
    /\ onSubmitData = ContentOf(initialData)

=============================================================================
